---- MODULE Spec2Model ----
(***************************************************************************)
(* Remote image-generation job orchestration of drizzle72/aitool.          *)
(*                                                                         *)
(* Two entry points are modelled, each as a sequence of steps, one step    *)
(* per HTTP request (the answer of the remote side is chosen by the        *)
(* environment in that step) together with all the local code that runs    *)
(* up to the next request or to the return:                                *)
(*   - ImageGenerator.generate_image (src/image_generator.py), which       *)
(*     dispatches to generate_image_runninghub or generate_from_text;      *)
(*   - the service generate_image_runninghub                               *)
(*     (src/src/services/image_generator.py).                              *)
(*                                                                         *)
(* Strings of the source that are not ASCII are written in ASCII:          *)
(*   "standard" = "标准", "hd" = "高清", "ultra" = "超清",                 *)
(*   "watercolor" = "水彩", "pixel" = "像素艺术", "realistic" = "写实",    *)
(*   "ink" = "水墨",                                                       *)
(*   "blank image" = "空白图像", ", " = "，".                              *)
(* Python's None is "None" for strings and NoSeed for the seed.            *)
(***************************************************************************)
EXTENDS Integers, Sequences, FiniteSets, TLC

VARIABLES
    env,         \* which credentials the environment holds
    entry,       \* the function that is executing ("idle" before the call)
    pc,          \* the next HTTP request of the call, or "done"
    req,         \* the arguments of the call
    prompt,      \* local variable prompt (after defaulting)
    seed,        \* local variable seed
    attempt,     \* iterations of the poll loop completed
    depth,       \* nesting depth of _call_stability_api
    payload,     \* body of the last generation / create request built
    task,        \* taskId of the created job, fileUrl and fileType to download
    net,         \* HTTP requests issued so far, per endpoint
    seen,        \* what the remote side has answered so far
    jobState,    \* RemoteJob.state as the poll loop sees it
    synthCalls,  \* arguments of every _mock_generate_image call
    writes,      \* paths of the files written, in order
    dirs,        \* directories created
    logged,      \* warning / error records emitted
    result,      \* what the call returned or raised
    rng,         \* state of the process-wide generator of module random
    nprng,       \* state of the process-wide generator of numpy.random
    now,         \* int(time.time())
    calls,       \* the concurrent generation calls, each at its own position
    files,       \* the output directories: which call wrote each path last
    workflows,   \* WorkflowConfig.workflows, the in-memory map
    saved,       \* content of the config file: the last map save_config wrote
    ret          \* what the last WorkflowConfig operation returned

\* the variables of one generation call followed request by request
request == <<env, entry, pc, req, prompt, seed, attempt, depth, payload,
             task, net, seen, jobState, synthCalls, writes, dirs, logged, result>>

\* the variables of the process shared by concurrent calls
process == <<rng, nprng, now, calls, files>>

\* the variables of a WorkflowConfig and its file
config == <<workflows, saved, ret>>

vars == <<request, process, config>>

----------------------------------------------------------------------------
(* Bounds of the model *)

MaxSeed == 2
MaxTime == 2
RecursionLimit == 2

(* Program constants *)

NoSeed == -1
RHMaxRetries == 30
SVMaxRetries == 60
UploadMaxSize == 10485760

Seeds == 1..MaxSeed
Timestamps == 1..MaxTime

----------------------------------------------------------------------------
(* Registries *)

IMAGE_STYLES ==
    [s \in {"realistic", "watercolor", "pixel", "ink"} |->
        CASE s = "realistic"  -> [name |-> "realistic style", preset |-> "photographic"]
          [] s = "watercolor" -> [name |-> "watercolor style", preset |-> "analog-film"]
          [] s = "pixel"      -> [name |-> "pixel style", preset |-> "pixel-art"]
          [] s = "ink"        -> [name |-> "ink style", preset |-> "ink"]]

IMAGE_QUALITY ==
    [q \in {"standard", "hd", "ultra"} |->
        CASE q = "standard" -> [width |-> 1024, height |-> 1024, steps |-> 30]
          [] q = "hd"       -> [width |-> 1152, height |-> 896, steps |-> 40]
          [] q = "ultra"    -> [width |-> 1536, height |-> 640, steps |-> 50]]

\* IMAGE_QUALITY.get(quality, IMAGE_QUALITY["标准"])
QualityGet(q) == IF q \in DOMAIN IMAGE_QUALITY THEN IMAGE_QUALITY[q] ELSE IMAGE_QUALITY["standard"]

Truthy(s) == s # "" /\ s # "None"

----------------------------------------------------------------------------
(* Credentials: read from the environment when the modules are loaded and   *)
(* the ImageGenerator is constructed without arguments                      *)

Env(s, d, r) == [STABILITY_API_KEY |-> s, DASHSCOPE_API_KEY |-> d, RUNNINGHUB_API_KEY |-> r]
Environments == {Env(FALSE, FALSE, FALSE), Env(TRUE, TRUE, TRUE),
                 Env(TRUE, FALSE, FALSE), Env(FALSE, TRUE, FALSE)}

stability_api_key == env.STABILITY_API_KEY
dashscope_api_key == env.DASHSCOPE_API_KEY
runninghub_api_key == env.RUNNINGHUB_API_KEY
API_KEY == env.RUNNINGHUB_API_KEY

----------------------------------------------------------------------------
(* Inputs *)

Prompts == {"", "red cat"}
Styles == {"None", "watercolor", "ink", "unknown"}
Qualities == {"hd", "bogus"}
SeedArgs == {NoSeed} \cup Seeds
Apis == {"stability", "runninghub"}
NegativePrompts == {"None", "blurry"}

----------------------------------------------------------------------------
(* Results *)

Pending == [kind |-> "pending", value |-> "None", origin |-> "None", exc |-> "None"]
Returned(v, o) == [kind |-> "returned", value |-> v, origin |-> o, exc |-> "None"]
Raised(e) == [kind |-> "raised", value |-> "None", origin |-> "None", exc |-> e]

NoNet == [translate |-> 0, stability |-> 0, upload |-> 0, create |-> 0,
          status |-> 0, outputs |-> 0, download |-> 0]
Requests(n) == n.translate + n.stability + n.upload + n.create + n.status
               + n.outputs + n.download
Count(ep) == net' = [net EXCEPT ![ep] = @ + 1]

NoSeen == [created |-> FALSE, allRunning |-> TRUE, failed |-> FALSE, unknown |-> FALSE,
           success |-> FALSE, transient |-> FALSE, outputsEmpty |-> FALSE,
           lastTransient |-> FALSE, nonzero |-> FALSE, nonzeroOk |-> FALSE,
           translateFailed |-> FALSE, uploaded |-> FALSE]

\* str(seed) in an f-string
SeedText(sd) == IF sd = NoSeed THEN "None" ELSE ToString(sd)

----------------------------------------------------------------------------
(* Local Synthesizer *)

MockPath(ts, sd) == "generated_images/mock_" \o ToString(ts) \o "_" \o SeedText(sd) \o ".png"

\* _get_colors_from_prompt: style_colors, the neutral default, color_keywords
style_colors ==
    [s \in {"realistic", "watercolor", "pixel"} |->
        CASE s = "realistic"  -> <<<<100, 100, 100>>, <<150, 150, 150>>, <<200, 200, 200>>>>
          [] s = "watercolor" -> <<<<200, 220, 255>>, <<255, 200, 200>>, <<200, 250, 200>>>>
          [] s = "pixel"      -> <<<<100, 120, 200>>, <<200, 100, 100>>, <<100, 200, 100>>>>]

DefaultColors == <<<<100, 100, 100>>, <<200, 200, 200>>, <<150, 150, 150>>>>

\* the colors of the keywords found in the prompt ("red" stands for the
\* keyword of color_keywords that "red cat" contains)
DetectedColors(p) == IF p = "red cat" THEN <<<<200, 50, 50>>>> ELSE <<>>

get_colors_from_prompt(p, st) ==
    LET base_colors == IF ~Truthy(st) \/ st \notin DOMAIN style_colors
                       THEN DefaultColors ELSE style_colors[st]
        detected_colors == IF Truthy(p) THEN DetectedColors(p) ELSE <<>>
    IN  base_colors \o detected_colors

\* a synthesizer that saves a second file next to the image
mock_generate_image_two_files(p, st, qp, sd) ==
    \E ts \in Timestamps :
        /\ synthCalls' = Append(synthCalls, [prompt |-> p, style |-> st, quality |-> qp, seed |-> sd,
                                              colors |-> get_colors_from_prompt(p, st)])
        /\ writes' = writes \o <<MockPath(ts, sd), MockPath(ts, sd) \o ".txt">>
        /\ result' = Returned(MockPath(ts, sd), "LocalFallback")
        /\ pc' = "done"

\* _mock_generate_image(prompt, style, quality_params, seed): seeds the
\* generators, paints, saves mock_<timestamp>_<seed>.png, returns the path.
mock_generate_image(p, st, qp, sd) ==
    \E ts \in Timestamps :
        /\ synthCalls' = Append(synthCalls, [prompt |-> p, style |-> st, quality |-> qp, seed |-> sd,
                                              colors |-> get_colors_from_prompt(p, st)])
        /\ writes' = Append(writes, MockPath(ts, sd))
        /\ result' = Returned(MockPath(ts, sd), "LocalFallback")
        /\ pc' = "done"

Raise(e) ==
    /\ result' = Raised(e)
    /\ pc' = "done"
    /\ UNCHANGED <<synthCalls, writes>>

----------------------------------------------------------------------------
(* HTTP responses: what the remote side may answer to one request *)

Http(h, b, c, hd, d) == [kind |-> "http", http |-> h, body |-> b, code |-> c, hasData |-> hd, data |-> d]
NetFail(k) == [kind |-> k, http |-> 0, body |-> "None", code |-> 1, hasData |-> FALSE, data |-> "None"]

\* requests.Timeout, requests.ConnectionError
Transient == {NetFail("timeout"), NetFail("connerr")}

\* every answer that is not a JSON body with code 0
Rejections == Transient \cup {Http(500, "json", 1, FALSE, "None"),
                              Http(200, "garbage", 1, FALSE, "None"),
                              Http(200, "json", 1, FALSE, "None")}

CreateResponses == Rejections \cup {Http(200, "json", 0, FALSE, "None"),
                                    Http(200, "json", 0, TRUE, "task-1"),
                                    Http(200, "json", 1, TRUE, "task-1")}

StatusResponses == Rejections \cup {Http(200, "json", 0, FALSE, "None")}
                   \cup {Http(200, "json", 0, TRUE, s) : s \in {"RUNNING", "SUCCESS", "FAILED", "QUEUED"}}
                   \cup {Http(200, "json", 1, TRUE, "SUCCESS")}

File(u, t) == [fileUrl |-> u, fileType |-> t]
OutputLists == {<<>>, <<File("None", "png")>>, <<File("url-1", "None")>>,
                <<File("url-1", "jpg"), File("url-2", "png")>>}
OutputsResponses == {[r EXCEPT !.data = <<>>] : r \in Rejections}
                    \cup {Http(200, "json", 0, FALSE, <<>>)}
                    \cup {Http(200, "json", 0, TRUE, l) : l \in OutputLists}
                    \cup {Http(200, "json", 1, TRUE, <<File("url-1", "png")>>)}

DownloadResponses == Transient \cup {Http(404, "None", 1, FALSE, "None"),
                                     Http(200, "bytes", 1, TRUE, "image")}

UploadResponses == Rejections \cup {Http(200, "json", 0, FALSE, "None"),
                                    Http(200, "json", 0, TRUE, "api/ref.png"),
                                    Http(200, "json", 1, TRUE, "api/ref.png")}

TranslateResponses == Transient \cup {Http(500, "json", 1, FALSE, "None"),
                                      Http(200, "garbage", 1, FALSE, "None"),
                                      Http(200, "json", 0, FALSE, "None"),
                                      Http(200, "json", 0, TRUE, "a red cat")}

\* response.json() succeeds
IsJson(r) == r.kind = "http" /\ r.body = "json"

\* what the ghost record seen remembers of the code of an answer: a code
\* other than 0, and one that came with HTTP 200 and with data
ObserveCode(s, r) ==
    [s EXCEPT !.nonzero = @ \/ (IsJson(r) /\ r.code # 0),
              !.nonzeroOk = @ \/ (IsJson(r) /\ r.code # 0 /\ r.http = 200 /\ r.hasData)]

\* an answer that is HTTP 200 with a JSON body, code 0 and data
Accepted(r) == IsJson(r) /\ r.http = 200 /\ r.code = 0 /\ r.hasData

\* what it remembers of a create answer and of an upload answer
ObserveCreate(s, r) == [ObserveCode(s, r) EXCEPT !.created = Accepted(r)]
ObserveUpload(s, r) == [ObserveCode(s, r) EXCEPT !.uploaded = Accepted(r)]

\* what it remembers of a translation answer: no translated text in it
ObserveTranslate(s, r) == [s EXCEPT !.translateFailed = ~(IsJson(r) /\ r.http = 200 /\ r.hasData)]

\* what the ghost record seen remembers of a status answer
ObserveStatus(s, r) ==
    LET ok == IsJson(r) /\ r.http = 200 /\ r.code = 0 /\ r.hasData IN
    [ObserveCode(s, r) EXCEPT
              !.allRunning = @ /\ ok /\ r.data = "RUNNING",
              !.failed = @ \/ (ok /\ r.data = "FAILED"),
              !.unknown = @ \/ (ok /\ r.data \notin {"RUNNING", "SUCCESS", "FAILED"}),
              !.success = @ \/ (ok /\ r.data = "SUCCESS"),
              !.transient = @ \/ (r \in Transient),
              !.lastTransient = r \in Transient]

\* what it remembers of an outputs answer: an accepted answer whose list is
\* missing or empty
ObserveOutputs(s, r) ==
    [ObserveCode(s, r) EXCEPT
              !.outputsEmpty = IsJson(r) /\ r.http = 200 /\ r.code = 0
                               /\ (~r.hasData \/ r.data = <<>>)]

----------------------------------------------------------------------------
(* ImageGenerator.generate_image_runninghub *)

RUNNINGHUB_WORKFLOW_ID == "1889944455695441922"

Node(id, f, v) == [nodeId |-> id, fieldName |-> f, fieldValue |-> v]

\* the three fallback returns (lines 838-839, 844, 848) and the mock return (735):
\* each reads IMAGE_QUALITY[quality]; a KeyError raised at 838 or 844 is
\* caught at 846 and raised again, uncaught, at 848.
RHLocalFallback ==
    IF req'.quality \in DOMAIN IMAGE_QUALITY
    THEN mock_generate_image(prompt', req'.style, IMAGE_QUALITY[req'.quality], seed')
    ELSE Raise("KeyError")

generate_image_runninghub(p, st, q, sd, um) ==
    /\ entry' = "generate_image_runninghub"
    /\ prompt' = IF Truthy(p) THEN p ELSE "blank image"
    /\ UNCHANGED <<attempt, depth, task, net, seen, jobState, dirs, logged>>
    /\ IF um \/ ~runninghub_api_key
       THEN /\ seed' = sd
            /\ RHLocalFallback
            /\ UNCHANGED payload
       ELSE /\ \E s \in (IF sd = NoSeed THEN Seeds ELSE {sd}) : seed' = s
            /\ payload' = [kind |-> "create", workflowId |-> RUNNINGHUB_WORKFLOW_ID,
                           nodeInfoList |-> <<Node("6", "text", prompt'), Node("3", "seed", seed')>>]
            /\ pc' = "rh_create"
            /\ UNCHANGED <<synthCalls, writes, result>>

\* the create request and the branches on its answer (lines 775-794, 840-848)
RHCreate ==
    /\ entry = "generate_image_runninghub" /\ pc = "rh_create"
    /\ Count("create")
    /\ UNCHANGED <<process, config, env, entry, req, prompt, seed, attempt, depth, payload, dirs, logged>>
    /\ \E r \in CreateResponses :
          IF IsJson(r) /\ r.http = 200 /\ r.code = 0 /\ r.hasData
          THEN /\ task' = [task EXCEPT !.taskId = r.data]
               /\ jobState' = "Created"
               /\ seen' = ObserveCreate(seen, r)
               /\ pc' = "rh_status"
               /\ UNCHANGED <<synthCalls, writes, result>>
          ELSE /\ RHLocalFallback
               /\ seen' = ObserveCreate(seen, r)
               /\ UNCHANGED <<task, jobState>>

\* a status check that reads data without looking at code
check_task_status_ignores_code(r) ==
    IF r.kind # "http" THEN "None"
    ELSE IF r.http = 200 /\ r.body # "json" THEN "None"
    ELSE IF r.http = 200 THEN (IF r.hasData THEN r.data ELSE "None")
    ELSE "None"

\* _check_task_status: the status string, or None on any failure
check_task_status(r) ==
    IF r.kind # "http" THEN "None"
    ELSE IF r.http = 200 /\ r.body # "json" THEN "None"
    ELSE IF r.http = 200 /\ r.code = 0 THEN (IF r.hasData THEN r.data ELSE "None")
    ELSE "None"

\* one iteration of the poll loop: the if/elif chain on status and the for
\* statement's test (lines 800-835)
RHAfterStatusRetryUnknown(status, n) ==
    CASE status = "SUCCESS" -> [pc |-> "rh_outputs", state |-> "Succeeded"]
      [] status = "FAILED" -> [pc |-> "fallback", state |-> "Failed"]
      [] OTHER -> IF n + 1 < RHMaxRetries THEN [pc |-> "rh_status", state |-> "Running"]
                  ELSE [pc |-> "fallback", state |-> "TimedOut"]

RHAfterStatusOffByOne(status, n) ==
    CASE status = "SUCCESS" -> [pc |-> "rh_outputs", state |-> "Succeeded"]
      [] status = "FAILED" -> [pc |-> "fallback", state |-> "Failed"]
      [] status = "RUNNING" -> IF n + 1 <= RHMaxRetries THEN [pc |-> "rh_status", state |-> "Running"]
                               ELSE [pc |-> "fallback", state |-> "TimedOut"]
      [] OTHER -> [pc |-> "fallback", state |-> "Unknown"]

RHAfterStatusResubmit(status, n) ==
    CASE status = "SUCCESS" -> [pc |-> "rh_outputs", state |-> "Succeeded"]
      [] status = "FAILED" -> [pc |-> "rh_create", state |-> "Failed"]
      [] status = "RUNNING" -> IF n + 1 < RHMaxRetries THEN [pc |-> "rh_status", state |-> "Running"]
                               ELSE [pc |-> "fallback", state |-> "TimedOut"]
      [] OTHER -> [pc |-> "fallback", state |-> "Unknown"]

RHAfterStatus(status, n) ==
    CASE status = "SUCCESS" -> [pc |-> "rh_outputs", state |-> "Succeeded"]
      [] status = "FAILED" -> [pc |-> "fallback", state |-> "Failed"]
      [] status = "RUNNING" -> IF n + 1 < RHMaxRetries THEN [pc |-> "rh_status", state |-> "Running"]
                               ELSE [pc |-> "fallback", state |-> "TimedOut"]
      [] OTHER -> [pc |-> "fallback", state |-> "Unknown"]

RHStatus ==
    /\ entry = "generate_image_runninghub" /\ pc = "rh_status"
    /\ Count("status")
    /\ UNCHANGED <<process, config, env, entry, req, prompt, seed, depth, payload, task, dirs, logged>>
    /\ \E r \in StatusResponses :
          LET nxt == RHAfterStatus(check_task_status(r), attempt) IN
          /\ seen' = ObserveStatus(seen, r)
          /\ jobState' = nxt.state
          /\ attempt' = attempt + 1
          /\ IF nxt.pc = "fallback"
             THEN RHLocalFallback
             ELSE pc' = nxt.pc /\ UNCHANGED <<synthCalls, writes, result>>

\* _get_task_outputs: the list, or None on any failure
get_task_outputs(r) ==
    IF IsJson(r) /\ r.http = 200 /\ r.code = 0 /\ r.hasData
    THEN [none |-> FALSE, list |-> r.data]
    ELSE [none |-> TRUE, list |-> <<>>]

\* an outputs step that goes back to polling when there is nothing to download
RHAfterOutputsResume(outputs) ==
    IF ~outputs.none /\ Len(outputs.list) > 0 /\ Truthy(outputs.list[1].fileUrl)
    THEN [pc |-> "rh_download", file_url |-> outputs.list[1].fileUrl,
          file_type |-> IF outputs.list[1].fileType = "None" THEN "png"
                        ELSE outputs.list[1].fileType]
    ELSE [pc |-> "rh_status", file_url |-> "None", file_type |-> "None"]

\* lines 807-826: the first entry is downloaded when it has a fileUrl
RHAfterOutputs(outputs) ==
    IF ~outputs.none /\ Len(outputs.list) > 0 /\ Truthy(outputs.list[1].fileUrl)
    THEN [pc |-> "rh_download", file_url |-> outputs.list[1].fileUrl,
          file_type |-> IF outputs.list[1].fileType = "None" THEN "png"
                        ELSE outputs.list[1].fileType]
    ELSE [pc |-> "fallback", file_url |-> "None", file_type |-> "None"]

RHOutputs ==
    /\ entry = "generate_image_runninghub" /\ pc = "rh_outputs"
    /\ Count("outputs")
    /\ UNCHANGED <<process, config, env, entry, req, prompt, seed, attempt, depth, payload, jobState, dirs, logged>>
    /\ \E r \in OutputsResponses :
          LET nxt == RHAfterOutputs(get_task_outputs(r)) IN
          /\ seen' = ObserveOutputs(seen, r)
          /\ IF nxt.pc = "fallback"
             THEN RHLocalFallback /\ UNCHANGED task
             ELSE /\ pc' = nxt.pc
                  /\ task' = [task EXCEPT !.url = nxt.file_url, !.type = nxt.file_type]
                  /\ UNCHANGED <<synthCalls, writes, result>>

\* _download_image: True when the GET answered 200 and the file was written
download_image(r) == r.kind = "http" /\ r.http = 200

RHPath(ts, sd, ft) == "generated_images/rh_gen_" \o ToString(ts) \o "_" \o SeedText(sd) \o "." \o ft

\* lines 821-826: return the path on success, leave the loop on failure
RHAfterDownloadRetry(ok) == IF ok THEN "return" ELSE "rh_status"

RHAfterDownload(ok) == IF ok THEN "return" ELSE "fallback"

RHDownload ==
    /\ entry = "generate_image_runninghub" /\ pc = "rh_download"
    /\ Count("download")
    /\ UNCHANGED <<process, config, env, entry, req, prompt, seed, attempt, depth, payload, task, seen, jobState, dirs, logged>>
    /\ \E r \in DownloadResponses :
          LET nxt == RHAfterDownload(download_image(r)) IN
          CASE nxt = "return" ->
                  \E ts \in Timestamps :
                      /\ writes' = Append(writes, RHPath(ts, seed, task.type))
                      /\ result' = Returned(RHPath(ts, seed, task.type), "Remote")
                      /\ pc' = "done"
                      /\ UNCHANGED synthCalls
            [] nxt = "fallback" -> RHLocalFallback
            [] OTHER -> pc' = nxt /\ UNCHANGED <<synthCalls, writes, result>>

----------------------------------------------------------------------------
(* ImageGenerator.generate_from_text *)

\* _translate_text before any request: "" for an empty text, the passthrough
\* without a credential, otherwise the request is due
Passthrough(text) == "[original: " \o text \o "]"

translate_text_local(text) ==
    IF ~Truthy(text) THEN [request |-> FALSE, value |-> ""]
    ELSE IF ~dashscope_api_key THEN [request |-> FALSE, value |-> Passthrough(text)]
    ELSE [request |-> TRUE, value |-> "None"]

\* a translation that answers the empty text when it fails
translate_text_answer_empty(r, text) ==
    IF IsJson(r) /\ r.http = 200 /\ r.hasData THEN r.data ELSE ""

\* _translate_text after the request (lines 576-586)
translate_text_answer(r, text) ==
    IF IsJson(r) /\ r.http = 200 /\ r.hasData THEN r.data ELSE Passthrough(text)

\* enhanced prompt of generate_from_text (lines 122-125)
EnhancedPrompt(p, st) ==
    IF Truthy(st) /\ st \in DOMAIN IMAGE_STYLES THEN p \o ", " \o IMAGE_STYLES[st].name ELSE p

\* payload of the generation request (lines 144-168)
StabilityPayload(english, qp, sd, neg, st) ==
    [kind |-> "stability",
     text_prompts |-> IF Truthy(neg) THEN <<[text |-> english, weight |-> 10], [text |-> neg, weight |-> -10]>>
                      ELSE <<[text |-> english, weight |-> 10]>>,
     height |-> qp.height, width |-> qp.width, steps |-> qp.steps, seed |-> sd,
     style_preset |-> IF Truthy(st) /\ st \in DOMAIN IMAGE_STYLES THEN IMAGE_STYLES[st].preset ELSE "None",
     sanitized |-> "no"]

GenPath(ts, sd) == "generated_images/gen_" \o ToString(ts) \o "_" \o SeedText(sd) \o ".png"

\* lines 131-194 up to the generation request
FTAfterTranslate(english) ==
    LET qp == QualityGet(req'.quality) IN
    \E s \in (IF req'.seed = NoSeed THEN Seeds ELSE {req'.seed}) :
        /\ seed' = s
        /\ IF req'.use_mock \/ ~stability_api_key
           THEN /\ mock_generate_image(prompt', req'.style, qp, s)
                /\ UNCHANGED <<payload, depth>>
           ELSE /\ payload' = StabilityPayload(english, qp, s, req'.negative_prompt, req'.style)
                /\ depth' = 0
                /\ pc' = "ft_stability"
                /\ UNCHANGED <<synthCalls, writes, result>>

generate_from_text(p, st, q, sd, um) ==
    LET p1 == IF Truthy(p) THEN p ELSE "blank image"
        tr == translate_text_local(EnhancedPrompt(p1, st))
    IN  /\ entry' = "generate_from_text"
        /\ prompt' = p1
        /\ UNCHANGED <<attempt, task, net, seen, jobState, dirs, logged>>
        /\ IF tr.request
           THEN /\ pc' = "ft_translate"
                /\ payload' = [kind |-> "translate", text |-> EnhancedPrompt(p1, st)]
                /\ UNCHANGED <<seed, depth, synthCalls, writes, result>>
           ELSE FTAfterTranslate(tr.value)

FTTranslate ==
    /\ entry = "generate_from_text" /\ pc = "ft_translate"
    /\ Count("translate")
    /\ UNCHANGED <<process, config, env, entry, req, prompt, attempt, task, jobState, dirs, logged>>
    /\ \E r \in TranslateResponses :
          /\ seen' = ObserveTranslate(seen, r)
          /\ FTAfterTranslate(translate_text_answer(r, payload.text))

\* answers of the generation endpoint: message is the "message" of a 400
\* body, name the "name" of a 403 body
Stab(h, b, c, m, n) == [kind |-> "http", http |-> h, body |-> b, content |-> c, message |-> m, name |-> n]
StabilityResponses ==
    {[kind |-> k, http |-> 0, body |-> "None", content |-> "", message |-> "None", name |-> "None"] : k \in {"timeout", "connerr"}}
    \cup {Stab(200, "bytes", "png-bytes", "None", "None"), Stab(200, "bytes", "", "None", "None"),
          Stab(400, "garbage", "", "None", "None"), Stab(400, "json", "", "None", "None"),
          Stab(400, "json", "", "invalid style_preset", "None"), Stab(400, "json", "", "bad request", "None"),
          Stab(403, "garbage", "", "None", "None"), Stab(403, "json", "", "None", "content_moderation"),
          Stab(403, "json", "", "None", "forbidden"), Stab(500, "json", "", "None", "None")}

\* one activation of _call_stability_api after its request was answered
\* (lines 257-283): the bytes, None, or a nested call with a changed payload
call_stability_api_answer(r, pl) ==
    CASE r.kind # "http" -> [do |-> "return", data |-> "None", payload |-> pl]
      [] r.kind = "http" /\ r.http = 200 -> [do |-> "return", data |-> r.content, payload |-> pl]
      [] r.kind = "http" /\ r.http = 400 /\ r.body = "json" /\ r.message = "invalid style_preset" ->
            [do |-> "recurse", data |-> "None", payload |-> [pl EXCEPT !.style_preset = "photographic"]]
      [] r.kind = "http" /\ r.http = 403 /\ r.body = "json" /\ r.name = "content_moderation" ->
            [do |-> "recurse", data |-> "None", payload |-> [pl EXCEPT !.sanitized = "strict"]]
      [] OTHER -> [do |-> "return", data |-> "None", payload |-> pl]

\* a nesting that goes one level deeper than the limit
FTStabilityOneMoreRetry ==
    /\ entry = "generate_from_text" /\ pc = "ft_stability"
    /\ Count("stability")
    /\ UNCHANGED <<process, config, env, entry, req, prompt, seed, attempt, task, seen, jobState, dirs, logged>>
    /\ \E r \in StabilityResponses :
          LET a == call_stability_api_answer(r, [payload EXCEPT !.sanitized = IF @ = "no" THEN "basic" ELSE @]) IN
          /\ payload' = a.payload
          /\ IF a.do = "recurse" /\ depth <= RecursionLimit
             THEN /\ depth' = depth + 1
                  /\ pc' = "ft_stability"
                  /\ UNCHANGED <<synthCalls, writes, result>>
             ELSE /\ UNCHANGED depth
                  /\ IF a.do = "return" /\ Truthy(a.data)
                     THEN \E ts \in Timestamps :
                              /\ writes' = Append(writes, GenPath(ts, seed))
                              /\ result' = Returned(GenPath(ts, seed), "Remote")
                              /\ pc' = "done"
                              /\ UNCHANGED synthCalls
                     ELSE mock_generate_image(prompt, req.style, QualityGet(req.quality), seed)

\* one request of _call_stability_api and what follows its answer; a nested
\* call beyond the interpreter's recursion limit raises RecursionError, which
\* except Exception (line 281) turns into None
FTStability ==
    /\ entry = "generate_from_text" /\ pc = "ft_stability"
    /\ Count("stability")
    /\ UNCHANGED <<process, config, env, entry, req, prompt, seed, attempt, task, seen, jobState, dirs, logged>>
    /\ \E r \in StabilityResponses :
          LET a == call_stability_api_answer(r, [payload EXCEPT !.sanitized = IF @ = "no" THEN "basic" ELSE @]) IN
          /\ payload' = a.payload
          /\ IF a.do = "recurse" /\ depth < RecursionLimit
             THEN /\ depth' = depth + 1
                  /\ pc' = "ft_stability"
                  /\ UNCHANGED <<synthCalls, writes, result>>
             ELSE /\ UNCHANGED depth
                  /\ IF a.do = "return" /\ Truthy(a.data)
                     THEN \E ts \in Timestamps :
                              /\ writes' = Append(writes, GenPath(ts, seed))
                              /\ result' = Returned(GenPath(ts, seed), "Remote")
                              /\ pc' = "done"
                              /\ UNCHANGED synthCalls
                     ELSE mock_generate_image(prompt, req.style, QualityGet(req.quality), seed)

----------------------------------------------------------------------------
(* ImageGenerator.generate_image *)

generate_image(p, st, q, neg, sd, um, api) ==
    /\ entry = "idle"
    /\ req' = [api |-> api, prompt |-> p, style |-> st, quality |-> q,
               negative_prompt |-> neg, seed |-> sd, use_mock |-> um]
    /\ UNCHANGED <<process, config, env>>
    /\ IF api = "runninghub"
       THEN generate_image_runninghub(p, st, q, sd, um)
       ELSE generate_from_text(p, st, q, sd, um)

----------------------------------------------------------------------------
(* enhance_prompt (module function of src/image_generator.py) *)

BasePrompts == {"None", "", "red cat"}
ExtraDetails == {"None", "", "at night"}

\* lines 889-899: None + str raises TypeError; nothing replaces an empty base
enhance_prompt(p, st, extra_details) ==
    LET with_style == Truthy(st) /\ st \in DOMAIN IMAGE_STYLES
        with_extra == Truthy(extra_details)
        e1 == IF with_style THEN p \o ", " \o IMAGE_STYLES[st].name ELSE p
        e2 == IF with_extra THEN e1 \o ", " \o extra_details ELSE e1
    IN  IF p = "None" /\ (with_style \/ with_extra) THEN [exc |-> "TypeError", value |-> "None"]
        ELSE [exc |-> "None", value |-> e2]

EnhancePrompt(p, st, extra_details) ==
    /\ entry = "idle"
    /\ entry' = "enhance_prompt"
    /\ req' = [api |-> "enhance_prompt", prompt |-> p, style |-> st, extra_details |-> extra_details]
    /\ pc' = "done"
    /\ result' = IF enhance_prompt(p, st, extra_details).exc = "None"
                 THEN Returned(enhance_prompt(p, st, extra_details).value, "text")
                 ELSE Raised(enhance_prompt(p, st, extra_details).exc)
    /\ UNCHANGED <<process, config, env, prompt, seed, attempt, depth, payload, task, net, seen,
                   jobState, synthCalls, writes, dirs, logged>>

----------------------------------------------------------------------------
(* services/image_generator.py: validation, upload_image, node lookup *)

\* str.isdigit() and int() on the workflow ids of the model: "sup2" stands
\* for a superscript two, a digit for isdigit() that int() rejects
IsDigit(w) == w \in {"123", "sup2"}
IntParses(w) == w = "123"
IntOf(w) == 123
IsBlank(p) == p \in {"", "   "}

validate_api_key == IF ~API_KEY THEN "ValueError" ELSE "ok"

validate_workflow_id(w) ==
    IF ~Truthy(w) THEN "ValueError"
    ELSE IF ~IsDigit(w) THEN "ValueError"
    ELSE "ok"

validate_prompt_no_strip(p) == IF ~Truthy(p) THEN "ValueError" ELSE "ok"

validate_prompt(p) ==
    IF ~Truthy(p) THEN "ValueError"
    ELSE IF IsBlank(p) THEN "ValueError"
    ELSE "ok"

\* a path together with the file the file system holds there
RefFile(path, ex, e, sz) == [path |-> path, exists |-> ex, ext |-> e, size |-> sz]
NoRef == RefFile("None", FALSE, "", 0)
GoodRef == RefFile("ref.jpg", TRUE, ".jpg", 2048)
RefFiles == {NoRef, GoodRef,
             RefFile("missing.png", FALSE, ".png", 0),
             RefFile("ref.gif", TRUE, ".gif", 2048),
             RefFile("big.png", TRUE, ".png", UploadMaxSize + 1),
             RefFile("exact.PNG", TRUE, ".PNG", UploadMaxSize)}

Lower(e) == CASE e = ".PNG" -> ".png" [] e = ".JPG" -> ".jpg" [] OTHER -> e

\* a size check that also rejects a file of exactly the cap
upload_image_checks_ge(f) ==
    IF ~f.exists THEN "ValueError"
    ELSE IF Lower(f.ext) \notin {".png", ".jpg", ".jpeg"} THEN "ValueError"
    ELSE IF f.size >= UploadMaxSize THEN "ValueError"
    ELSE "ok"

\* upload_image before its request (lines 70-89)
upload_image_checks(f) ==
    IF ~f.exists THEN "ValueError"
    ELSE IF Lower(f.ext) \notin {".png", ".jpg", ".jpeg"} THEN "ValueError"
    ELSE IF f.size > UploadMaxSize THEN "ValueError"
    ELSE "ok"

\* an upload that reports no failure and hands on whatever it got
upload_image_answer_lenient(r) ==
    IF r \in Transient \/ r.http # 200 \/ r.body # "json" \/ r.code # 0 \/ ~r.hasData
    THEN [exc |-> "None", fileName |-> "None"]
    ELSE [exc |-> "None", fileName |-> r.data]

\* upload_image after its request (lines 117-153): the fileName, or the
\* exception raised
upload_image_answer(r) ==
    IF r \in Transient THEN [exc |-> "Exception", fileName |-> "None"]
    ELSE IF r.http # 200 THEN [exc |-> "Exception", fileName |-> "None"]
    ELSE IF r.body # "json" THEN [exc |-> "Exception", fileName |-> "None"]
    ELSE IF r.code # 0 THEN [exc |-> "Exception", fileName |-> "None"]
    ELSE IF ~r.hasData THEN [exc |-> "KeyError", fileName |-> "None"]
    ELSE [exc |-> "None", fileName |-> r.data]

RECURSIVE FirstNode(_, _, _)
FirstNode(list, f, i) ==
    IF i > Len(list) THEN "None"
    ELSE IF list[i].fieldName = f THEN list[i].nodeId
    ELSE FirstNode(list, f, i + 1)

\* a lookup that takes the first node whatever its field
get_node_id_by_field_any(workflow_config, field_name) ==
    IF Len(workflow_config) > 0 THEN workflow_config[1].nodeId ELSE "None"

\* a lookup that answers a fixed node id when no node has the field
get_node_id_by_field_default(workflow_config, field_name) ==
    IF FirstNode(workflow_config, field_name, 1) = "None" THEN "1"
    ELSE FirstNode(workflow_config, field_name, 1)

\* workflow_config.get('nodeInfoList', []) searched in order
get_node_id_by_field(workflow_config, field_name) == FirstNode(workflow_config, field_name, 1)

ImageNode == Node("10", "image", "")
TextNode == Node("7", "text", "")
SeedNode == Node("4", "seed", 0)
FullConfig == <<ImageNode, TextNode, SeedNode>>
WorkflowConfigs == {FullConfig, <<ImageNode, TextNode>>, <<ImageNode, SeedNode>>,
                    <<TextNode, SeedNode>>, <<>>}

SVRequest(p, w, c, t, f, neg, sd) ==
    [api |-> "service", prompt |-> p, workflow_id |-> w, workflow_config |-> c,
     workflow_type |-> t, reference_image_path |-> f, negative_prompt |-> neg, seed |-> sd]

SVRequests ==
    {SVRequest(p, w, FullConfig, t, f, "None", NoSeed) :
        p \in {"", "   ", "red cat"}, w \in {"", "abc", "123", "sup2"},
        t \in {"text_to_image", "image_to_image"}, f \in {NoRef, GoodRef}}
    \cup {SVRequest("red cat", "123", c, t, f, "None", 1) :
        c \in WorkflowConfigs, t \in {"text_to_image", "image_to_image"}, f \in RefFiles}
    \cup {SVRequest("red cat", "123", FullConfig, "text_to_image", NoRef, neg, sd) :
        neg \in NegativePrompts, sd \in SeedArgs}

----------------------------------------------------------------------------
(* services/image_generator.py: generate_image_runninghub *)

Exceptions == {"Exception", "ValueError", "KeyError"}

\* except Exception (line 513)
SVCatchesValueErrorOnly(exc) == exc = "ValueError"

SVCatches(exc) == exc \in Exceptions

\* lines 513-516: log, print, return None
SVExcept(exc, lg) ==
    /\ pc' = "done"
    /\ UNCHANGED <<synthCalls, writes>>
    /\ IF SVCatches(exc)
       THEN /\ result' = Returned("None", "None")
            /\ logged' = lg \cup {"error: generation failed"}
       ELSE /\ result' = Raised(exc)
            /\ logged' = lg

\* lines 258-313 up to the create request
SVBuildRequest(image_nodes, lg) ==
    LET t == get_node_id_by_field(req'.workflow_config, "text")
        sn == get_node_id_by_field(req'.workflow_config, "seed")
        text_node_id == IF Truthy(t) THEN t ELSE "6"
        seed_node_id == IF Truthy(sn) THEN sn ELSE "3"
        lg2 == lg \cup (IF Truthy(t) THEN {} ELSE {"warning: no text node, using 6"})
                  \cup (IF Truthy(sn) THEN {} ELSE {"warning: no seed node, using 3"})
    IN  \E s \in (IF req'.seed = NoSeed THEN Seeds ELSE {req'.seed}) :
            /\ seed' = s
            /\ IF IntParses(req'.workflow_id)
               THEN /\ payload' = [kind |-> "create", workflowId |-> IntOf(req'.workflow_id),
                                   nodeInfoList |-> image_nodes \o <<Node(text_node_id, "text", prompt'),
                                                                      Node(seed_node_id, "seed", s)>>,
                                   negative_prompt |-> req'.negative_prompt]
                    /\ pc' = "sv_create"
                    /\ logged' = lg2
                    /\ UNCHANGED <<synthCalls, writes, result>>
               ELSE /\ SVExcept("ValueError", lg2)
                    /\ UNCHANGED payload

\* lines 200-256: validation, output directory, image node, upload checks
service_generate_image_runninghub(r) ==
    /\ entry = "idle"
    /\ entry' = "service"
    /\ req' = r
    /\ prompt' = r.prompt
    /\ UNCHANGED <<process, config, env, attempt, depth, task, net, seen, jobState>>
    /\ IF validate_api_key # "ok" \/ validate_workflow_id(r.workflow_id) # "ok"
          \/ validate_prompt(r.prompt) # "ok"
          \/ (r.workflow_type = "image_to_image" /\ ~Truthy(r.reference_image_path.path))
       THEN SVExcept("ValueError", logged) /\ UNCHANGED <<seed, payload, dirs>>
       ELSE /\ dirs' = dirs \cup {"outputs"}
            /\ IF r.workflow_type = "image_to_image" /\ Truthy(r.reference_image_path.path)
               THEN IF ~Truthy(get_node_id_by_field(r.workflow_config, "image"))
                    THEN /\ SVExcept("ValueError", logged \cup {"error: reference image"})
                         /\ UNCHANGED <<seed, payload>>
                    ELSE IF upload_image_checks(r.reference_image_path) # "ok"
                    THEN /\ SVExcept(upload_image_checks(r.reference_image_path),
                                     logged \cup {"error: upload", "error: reference image"})
                         /\ UNCHANGED <<seed, payload>>
                    ELSE /\ pc' = "sv_upload"
                         /\ UNCHANGED <<seed, payload, logged, synthCalls, writes, result>>
               ELSE SVBuildRequest(<<>>, logged)

SVUpload ==
    /\ entry = "service" /\ pc = "sv_upload"
    /\ Count("upload")
    /\ UNCHANGED <<process, config, env, entry, req, prompt, attempt, depth, task, jobState, dirs>>
    /\ \E r \in UploadResponses :
          LET a == upload_image_answer(r) IN
          /\ seen' = ObserveUpload(seen, r)
          /\ IF a.exc # "None"
             THEN /\ SVExcept(a.exc, logged \cup {"error: upload", "error: reference image"})
                  /\ UNCHANGED <<seed, payload>>
             ELSE SVBuildRequest(<<Node(get_node_id_by_field(req.workflow_config, "image"),
                                        "image", a.fileName)>>, logged)

\* a check of the create answer that does not look at code
sv_create_answer_ignores_code(r) ==
    IF r \in Transient THEN "Exception"
    ELSE IF r.http # 200 THEN "Exception"
    ELSE IF r.body # "json" THEN "Exception"
    ELSE IF ~r.hasData THEN "KeyError"
    ELSE "None"

\* the create request and the checks of its answer (lines 308-344)
sv_create_answer(r) ==
    IF r \in Transient THEN "Exception"
    ELSE IF r.http # 200 THEN "Exception"
    ELSE IF r.body # "json" THEN "Exception"
    ELSE IF r.code # 0 THEN "Exception"
    ELSE IF ~r.hasData THEN "KeyError"
    ELSE "None"

SVCreate ==
    /\ entry = "service" /\ pc = "sv_create"
    /\ Count("create")
    /\ UNCHANGED <<process, config, env, entry, req, prompt, seed, attempt, depth, payload, dirs>>
    /\ \E r \in CreateResponses :
          IF sv_create_answer(r) # "None"
          THEN /\ SVExcept(sv_create_answer(r), logged \cup {"error: create"})
               /\ seen' = ObserveCreate(seen, r)
               /\ UNCHANGED <<task, jobState>>
          ELSE /\ task' = [task EXCEPT !.taskId = r.data]
               /\ jobState' = "Created"
               /\ seen' = ObserveCreate(seen, r)
               /\ pc' = "sv_status"
               /\ UNCHANGED <<synthCalls, writes, result, logged>>

\* one status request and the checks of its answer (lines 365-408)
sv_status_answer(r) ==
    IF r \in Transient THEN [kind |-> "retry", exc |-> "None", status |-> "None"]
    ELSE IF r.http # 200 THEN [kind |-> "raise", exc |-> "Exception", status |-> "None"]
    ELSE IF r.body # "json" THEN [kind |-> "raise", exc |-> "Exception", status |-> "None"]
    ELSE IF r.code # 0 THEN [kind |-> "raise", exc |-> "Exception", status |-> "None"]
    ELSE IF ~r.hasData THEN [kind |-> "raise", exc |-> "KeyError", status |-> "None"]
    ELSE [kind |-> "status", exc |-> "None", status |-> r.data]

\* a loop that runs one iteration more than max_retries
SVLoopOneMore(n, js) ==
    IF n + 1 <= SVMaxRetries THEN [pc |-> "sv_status", state |-> js, exc |-> "None"]
    ELSE [pc |-> "raise", state |-> "TimedOut", exc |-> "Exception"]

\* the rest of the iteration and the for statement's test (lines 350,
\* 372-379, 410-511); js is the job's state before the answer
SVLoop(n, js) ==
    IF n + 1 < SVMaxRetries THEN [pc |-> "sv_status", state |-> js, exc |-> "None"]
    ELSE [pc |-> "raise", state |-> "TimedOut", exc |-> "Exception"]

SVAfterStatusFailedAsRunning(a, n, js) ==
    CASE a.kind = "retry" -> SVLoop(n, js)
      [] a.kind = "raise" -> [pc |-> "raise", state |-> js, exc |-> a.exc]
      [] a.kind = "status" /\ a.status = "SUCCESS" -> [pc |-> "sv_outputs", state |-> "Succeeded", exc |-> "None"]
      [] a.kind = "status" /\ a.status \in {"RUNNING", "FAILED"} -> SVLoop(n, "Running")
      [] OTHER -> [pc |-> "raise", state |-> "Unknown", exc |-> "Exception"]

SVAfterStatus(a, n, js) ==
    CASE a.kind = "retry" -> SVLoop(n, js)
      [] a.kind = "raise" -> [pc |-> "raise", state |-> js, exc |-> a.exc]
      [] a.kind = "status" /\ a.status = "SUCCESS" -> [pc |-> "sv_outputs", state |-> "Succeeded", exc |-> "None"]
      [] a.kind = "status" /\ a.status = "FAILED" -> [pc |-> "raise", state |-> "Failed", exc |-> "Exception"]
      [] a.kind = "status" /\ a.status = "RUNNING" -> SVLoop(n, "Running")
      [] OTHER -> [pc |-> "raise", state |-> "Unknown", exc |-> "Exception"]

SVStatus ==
    /\ entry = "service" /\ pc = "sv_status"
    /\ Count("status")
    /\ UNCHANGED <<process, config, env, entry, req, prompt, seed, depth, payload, task, dirs>>
    /\ \E r \in StatusResponses :
          LET a == sv_status_answer(r)
              nxt == SVAfterStatus(a, attempt, jobState)
              lg == logged \cup (IF a.kind = "retry" THEN {"warning: status retry"} ELSE {})
                           \cup (IF nxt.pc = "raise" THEN {"error: status"} ELSE {})
          IN  /\ seen' = ObserveStatus(seen, r)
              /\ jobState' = nxt.state
              /\ attempt' = attempt + 1
              /\ IF nxt.pc = "raise"
                 THEN SVExcept(nxt.exc, lg)
                 ELSE /\ pc' = nxt.pc
                      /\ logged' = lg
                      /\ UNCHANGED <<synthCalls, writes, result>>

\* the outputs request and the checks of its answer (lines 421-469): the
\* first entry's fileUrl, or the exception raised
sv_outputs_answer(r) ==
    IF r \in {[t EXCEPT !.data = <<>>] : t \in Transient} THEN [exc |-> "Exception", url |-> "None"]
    ELSE IF r.http # 200 THEN [exc |-> "Exception", url |-> "None"]
    ELSE IF r.body # "json" THEN [exc |-> "Exception", url |-> "None"]
    ELSE IF r.code # 0 THEN [exc |-> "Exception", url |-> "None"]
    ELSE IF ~r.hasData THEN [exc |-> "KeyError", url |-> "None"]
    ELSE IF r.data = <<>> THEN [exc |-> "Exception", url |-> "None"]
    ELSE IF r.data[1].fileUrl = "None" THEN [exc |-> "KeyError", url |-> "None"]
    ELSE [exc |-> "None", url |-> r.data[1].fileUrl]

SVOutputs ==
    /\ entry = "service" /\ pc = "sv_outputs"
    /\ Count("outputs")
    /\ UNCHANGED <<process, config, env, entry, req, prompt, seed, attempt, depth, payload, jobState, dirs>>
    /\ \E r \in OutputsResponses :
          LET a == sv_outputs_answer(r) IN
          /\ seen' = ObserveOutputs(seen, r)
          /\ IF a.exc # "None"
             THEN SVExcept(a.exc, logged \cup {"error: outputs"}) /\ UNCHANGED task
             ELSE /\ pc' = "sv_download"
                  /\ task' = [task EXCEPT !.url = a.url, !.type = "png"]
                  /\ UNCHANGED <<synthCalls, writes, result, logged>>

\* generated_<%Y%m%d_%H%M%S>.png under outputs/
SVPath(ts) == "outputs/generated_" \o ToString(ts) \o ".png"

\* the download and the save (lines 472-496); raise_for_status turns a
\* status of 400 or more into a RequestException
sv_download_answer(r) ==
    IF r \in Transient THEN "Exception"
    ELSE IF r.http >= 400 THEN "Exception"
    ELSE "None"

SVDownload ==
    /\ entry = "service" /\ pc = "sv_download"
    /\ Count("download")
    /\ UNCHANGED <<process, config, env, entry, req, prompt, seed, attempt, depth, payload, task, seen, jobState, dirs>>
    /\ \E r \in DownloadResponses :
          IF sv_download_answer(r) # "None"
          THEN SVExcept(sv_download_answer(r), logged \cup {"error: download"})
          ELSE \E ts \in Timestamps :
                  /\ writes' = Append(writes, SVPath(ts))
                  /\ result' = Returned(SVPath(ts), "Remote")
                  /\ pc' = "done"
                  /\ UNCHANGED <<synthCalls, logged>>

----------------------------------------------------------------------------
(* Concurrent generation calls in one process: _mock_generate_image step by *)
(* step (one step per call on a process-wide generator), and the save of    *)
(* every kind of call                                                       *)

MaxShapes == 1
RngModulus == 8

Callers == {1, 2}

\* a generator: its state after one draw; the value drawn is the new state
RngNext(s) == (5 * s + 3) % RngModulus

\* random.seed(seed), np.random.seed(seed): the state is a function of the
\* seed; with None it is taken from the operating system's entropy
SeedStates(sd) == IF sd = NoSeed THEN 0..(RngModulus - 1) ELSE {sd % RngModulus}

Max(a, b) == IF a > b THEN a ELSE b
Min(a, b) == IF a < b THEN a ELSE b

\* a final branch that stamps discs
AlgorithmDiscsByDefault(st) ==
    IF st \in {"pixel", "anime", "minimalist"} THEN "blocks" ELSE "discs"

\* the if/elif/else on style (lines 335, 343, 357); "anime", "minimalist",
\* "oil" and "impressionist" stand for the other keys of the two lists
Algorithm(st) ==
    IF st \in {"pixel", "anime", "minimalist"} THEN "blocks"
    ELSE IF st \in {"watercolor", "oil", "impressionist"} THEN "discs"
    ELSE "gradients"

\* the draws of one iteration, in order: np.random.randint(lo, hi) or
\* random.choice(colors)
NpDraw(lo, hi) == [gen |-> "numpy", lo |-> lo, hi |-> hi]
PyDraw == [gen |-> "random", lo |-> 0, hi |-> 0]

DrawPlan(algo, qp) ==
    CASE algo = "blocks" -> <<PyDraw>>
      [] algo = "discs" -> <<NpDraw(0, qp.width), NpDraw(0, qp.height),
                             NpDraw(qp.width \div 20, qp.width \div 4), PyDraw>>
      [] OTHER -> <<NpDraw(0, qp.width), NpDraw(0, qp.height),
                    NpDraw(0, qp.width), NpDraw(0, qp.height), PyDraw, PyDraw>>

\* iterations of the painting loop, of which the first MaxShapes are followed
BlockCount(qp) ==
    LET block_size == Max(4, qp.width \div 64)
    IN  ((qp.height + block_size - 1) \div block_size) * ((qp.width + block_size - 1) \div block_size)

Iterations(algo, qp) ==
    Min(MaxShapes, CASE algo = "blocks" -> BlockCount(qp)
                     [] algo = "discs" -> 100
                     [] OTHER -> 20)

\* the value one draw yields from the generator state s it leaves behind
DrawValue(d, s, colors) ==
    IF d.gen = "numpy" THEN d.lo + (s % (d.hi - d.lo)) ELSE (s % Len(colors)) + 1

NotCalled == [pc |-> "idle", kind |-> "None", prompt |-> "None", style |-> "None",
              quality |-> "standard", seed |-> NoSeed, colors |-> <<>>,
              algo |-> "None", i |-> 0, k |-> 0, img |-> <<>>, path |-> "None"]

\* the arguments _mock_generate_image is called with: prompt, style, seed
SynthInput(p, st, sd) == [prompt |-> p, style |-> st, seed |-> sd]
SynthInputs ==
    {SynthInput("red cat", "watercolor", sd) : sd \in Seeds}
    \cup {SynthInput("blank image", "None", sd) : sd \in Seeds}
    \cup {SynthInput("red cat", "pixel", sd) : sd \in SeedArgs}
    \cup {SynthInput("blank image", "watercolor", 0), SynthInput("red cat", "unknown", 0)}

\* the origin prefixes of the remote saves: generate_from_text,
\* ImageGenerator.generate_image_runninghub, the service
RemoteKinds == {"gen", "rh_gen", "service"}

PathOf(kind, ts, sd) ==
    CASE kind = "mock" -> MockPath(ts, sd)
      [] kind = "gen" -> GenPath(ts, sd)
      [] kind = "rh_gen" -> RHPath(ts, sd, "png")
      [] OTHER -> SVPath(ts)

\* entry of _mock_generate_image
SynthStart(c, p, st, q, sd) ==
    /\ calls[c].pc = "idle"
    /\ calls' = [calls EXCEPT ![c] = [NotCalled EXCEPT !.pc = "random_seed", !.kind = "mock",
                                        !.prompt = p, !.style = st, !.quality = q, !.seed = sd]]
    /\ UNCHANGED <<request, config, rng, nprng, now, files>>

\* a call whose remote artifact arrived: its seed is set, the save is next
RemoteStart(c, kind, sd) ==
    /\ calls[c].pc = "idle"
    /\ calls' = [calls EXCEPT ![c] = [NotCalled EXCEPT !.pc = "save", !.kind = kind, !.seed = sd]]
    /\ UNCHANGED <<request, config, rng, nprng, now, files>>

\* random.seed(seed), line 320
RandomSeed(c) ==
    /\ calls[c].pc = "random_seed"
    /\ rng' \in SeedStates(calls[c].seed)
    /\ calls' = [calls EXCEPT ![c].pc = "np_random_seed"]
    /\ UNCHANGED <<request, config, nprng, now, files>>

\* line 321 left out: the numpy generator keeps the state it has
NpRandomSeedSkipped(c) ==
    /\ calls[c].pc = "np_random_seed"
    /\ calls' = [calls EXCEPT ![c].pc = "draw", ![c].i = 1, ![c].k = 1,
                              ![c].colors = get_colors_from_prompt(calls[c].prompt, calls[c].style),
                              ![c].algo = Algorithm(calls[c].style)]
    /\ UNCHANGED <<request, config, rng, nprng, now, files>>

\* np.random.seed(seed), line 321, the palette, line 329, and the branch
\* taken on style, lines 335-357
NpRandomSeed(c) ==
    /\ calls[c].pc = "np_random_seed"
    /\ nprng' \in SeedStates(calls[c].seed)
    /\ calls' = [calls EXCEPT ![c].pc = "draw", ![c].i = 1, ![c].k = 1,
                              ![c].colors = get_colors_from_prompt(calls[c].prompt, calls[c].style),
                              ![c].algo = Algorithm(calls[c].style)]
    /\ UNCHANGED <<request, config, rng, now, files>>

\* one np.random.randint or random.choice of the painting loop
Draw(c) ==
    LET cl == calls[c]
        qp == IMAGE_QUALITY[cl.quality]
        plan == DrawPlan(cl.algo, qp)
        d == plan[cl.k]
        s == IF d.gen = "numpy" THEN RngNext(nprng) ELSE RngNext(rng)
        last == cl.k = Len(plan)
        over == last /\ cl.i = Iterations(cl.algo, qp)
    IN  /\ cl.pc = "draw"
        /\ IF d.gen = "numpy" THEN nprng' = s /\ UNCHANGED rng
                              ELSE rng' = s /\ UNCHANGED nprng
        /\ calls' = [calls EXCEPT ![c].img = Append(@, DrawValue(d, s, cl.colors)),
                                  ![c].k = IF last THEN 1 ELSE @ + 1,
                                  ![c].i = IF last THEN @ + 1 ELSE @,
                                  ![c].pc = IF over THEN "save" ELSE "draw"]
        /\ UNCHANGED <<request, config, now, files>>

\* timestamp, output_path and the write of the file
Save(c) ==
    LET path == PathOf(calls[c].kind, now, calls[c].seed) IN
    /\ calls[c].pc = "save"
    /\ calls' = [calls EXCEPT ![c].pc = "done", ![c].path = path]
    /\ files' = {f \in files : f.path # path} \cup {[path |-> path, by |-> c]}
    /\ UNCHANGED <<request, config, rng, nprng, now>>

\* the clock of time.time() advances
Tick ==
    /\ now < MaxTime
    /\ now' = now + 1
    /\ UNCHANGED <<request, config, rng, nprng, calls, files>>

CallStep(c) ==
    \/ \E a \in SynthInputs : SynthStart(c, a.prompt, a.style, "hd", a.seed)
    \/ \E kind \in RemoteKinds, sd \in Seeds : RemoteStart(c, kind, sd)
    \/ RandomSeed(c)
    \/ NpRandomSeed(c)
    \/ Draw(c)
    \/ Save(c)

\* the image the call paints when no other call touches the generators:
\* the draws of the plan, from the states the seed gives
RECURSIVE DrawsAlone(_, _, _, _, _, _, _)
DrawsAlone(plan, colors, n, i, k, r, nr) ==
    IF i > n THEN <<>>
    ELSE LET d == plan[k]
             s == IF d.gen = "numpy" THEN RngNext(nr) ELSE RngNext(r)
             last == k = Len(plan)
         IN  <<DrawValue(d, s, colors)>>
             \o DrawsAlone(plan, colors, n, IF last THEN i + 1 ELSE i, IF last THEN 1 ELSE k + 1,
                           IF d.gen = "numpy" THEN r ELSE s, IF d.gen = "numpy" THEN s ELSE nr)

ImageAlone(p, st, q, sd) ==
    LET qp == IMAGE_QUALITY[q]
        algo == Algorithm(st)
    IN  DrawsAlone(DrawPlan(algo, qp), get_colors_from_prompt(p, st), Iterations(algo, qp),
                   1, 1, sd % RngModulus, sd % RngModulus)

RequestIdle ==
    /\ entry = "idle"
    /\ pc = "idle"
    /\ req = [api |-> "None"]
    /\ prompt = "None"
    /\ seed = NoSeed
    /\ attempt = 0
    /\ depth = 0
    /\ payload = [kind |-> "None"]
    /\ task = [taskId |-> "None", url |-> "None", type |-> "None"]
    /\ net = NoNet
    /\ seen = NoSeen
    /\ jobState = "None"
    /\ synthCalls = <<>>
    /\ writes = <<>>
    /\ dirs = {"generated_images"}
    /\ logged = {}
    /\ result = Pending

ProcessIdle ==
    /\ now = 1
    /\ calls = [c \in Callers |-> NotCalled]
    /\ files = {}

----------------------------------------------------------------------------
(* WorkflowConfig: the map of workflows in memory and the file it is saved  *)
(* to                                                                       *)

WorkflowIds == {"w1", "w2", "w3"}
WorkflowNames == {"a", "b"}
Absent == [name |-> "None", description |-> "None", model |-> "None", parameters |-> "None"]

\* the value add_workflow stores, lines 45-50: model defaults to "" and
\* parameters to {}
WorkflowEntry(name, description) ==
    [name |-> name, description |-> description, model |-> "", parameters |-> "{}"]

\* a dict of workflows: every id is absent or bound to an entry
WorkflowMaps == [WorkflowIds -> {Absent} \cup {WorkflowEntry(n, "d") : n \in WorkflowNames}]
NoWorkflows == [w \in WorkflowIds |-> Absent]

\* save_config: the dump succeeds and the file holds the map, or it raises,
\* the exception is printed and the file is not the map's
save_config(ok, map) ==
    /\ saved' = IF ok THEN map ELSE saved
    /\ ret' = IF ok THEN "True" ELSE "False"

\* the map is changed at line 45, before save_config is called at line 51
add_workflow(workflow_id, name, description, ok) ==
    /\ workflows' = [workflows EXCEPT ![workflow_id] = WorkflowEntry(name, description)]
    /\ save_config(ok, workflows')
    /\ UNCHANGED <<request, process>>

remove_workflow(workflow_id, ok) ==
    /\ IF workflows[workflow_id] # Absent
       THEN /\ workflows' = [workflows EXCEPT ![workflow_id] = Absent]
            /\ save_config(ok, workflows')
       ELSE /\ ret' = "False"
            /\ UNCHANGED <<workflows, saved>>
    /\ UNCHANGED <<request, process>>

clear_workflows(ok) ==
    /\ workflows' = NoWorkflows
    /\ save_config(ok, workflows')
    /\ UNCHANGED <<request, process>>

get_all_workflows == workflows

\* no WorkflowConfig has been constructed
ConfigIdle ==
    /\ workflows = NoWorkflows
    /\ saved = NoWorkflows
    /\ ret = "None"

----------------------------------------------------------------------------
Init ==
    /\ env \in Environments
    /\ RequestIdle
    /\ ProcessIdle
    /\ ConfigIdle
    /\ rng = 0
    /\ nprng = 0


Next ==
    \/ \E p \in Prompts, st \in Styles, q \in Qualities, neg \in NegativePrompts,
          sd \in SeedArgs, um \in BOOLEAN, api \in Apis :
            generate_image(p, st, q, neg, sd, um, api)
    \/ RHCreate
    \/ RHStatus
    \/ RHOutputs
    \/ RHDownload
    \/ FTTranslate
    \/ FTStability
    \/ \E r \in SVRequests : service_generate_image_runninghub(r)
    \/ SVUpload
    \/ SVCreate
    \/ SVStatus
    \/ SVOutputs
    \/ SVDownload
    \/ \E p \in BasePrompts, st \in Styles, ex \in ExtraDetails : EnhancePrompt(p, st, ex)

Spec == Init /\ [][Next]_vars

\* every request carries a timeout and the thread of the call keeps running:
\* a call that can take a step takes it
FairSpec == Init /\ [][Next]_vars /\ WF_vars(Next)

\* calls of one process: the generators hold any state when the first call
\* starts
ProcessInit ==
    /\ env = Env(FALSE, FALSE, FALSE)
    /\ RequestIdle
    /\ ProcessIdle
    /\ ConfigIdle
    /\ rng \in {0, RngModulus - 1}
    /\ nprng = rng

\* threads: the steps of the calls interleave in any order
ThreadsNext ==
    \/ \E c \in Callers : CallStep(c)
    \/ Tick

ThreadsSpec == ProcessInit /\ [][ThreadsNext]_vars

\* one call after the other: a call steps only while no other call is
\* under way
Alone(c) == \A d \in Callers \ {c} : calls[d].pc \in {"idle", "done"}

SerialNext ==
    \/ \E c \in Callers : Alone(c) /\ CallStep(c)
    \/ Tick

SerialSpec == ProcessInit /\ [][SerialNext]_vars

\* __init__: the map is what _load_config read from the file, {} when the
\* file is missing
ConfigInit ==
    /\ env = Env(FALSE, FALSE, FALSE)
    /\ RequestIdle
    /\ ProcessIdle
    /\ rng = 0
    /\ nprng = 0
    /\ saved \in WorkflowMaps
    /\ workflows = saved
    /\ ret = "None"

ConfigNext ==
    \/ \E w \in WorkflowIds, n \in WorkflowNames, ok \in BOOLEAN : add_workflow(w, n, "d", ok)
    \/ \E w \in WorkflowIds, ok \in BOOLEAN : remove_workflow(w, ok)
    \/ \E ok \in BOOLEAN : clear_workflows(ok)

ConfigSpec == ConfigInit /\ [][ConfigNext]_vars

----------------------------------------------------------------------------
(* Properties *)

Done == pc = "done"
InImageGenerator == entry \in {"generate_image_runninghub", "generate_from_text"}
InPollLoop == entry \in {"generate_image_runninghub", "service"}
RemoteAttempted == net.create > 0 \/ net.stability > 0
RemoteArtifact == result.kind = "returned" /\ result.origin = "Remote"
\* the seed that went out in the generation / create request
SentSeed ==
    IF payload.kind = "stability" THEN payload.seed
    ELSE payload.nodeInfoList[Len(payload.nodeInfoList)].fieldValue
RemoteStepErrors == {"error: upload", "error: create", "error: status",
                     "error: outputs", "error: download"}

\* C1: in ImageGenerator, a call that attempted the remote path and did not
\* download an artifact returns the Local Synthesizer's artifact, and the
\* synthesizer ran once with the seed sent to the remote side and the
\* request's style and quality.
C1_FallbackAfterRemoteFailure ==
    (InImageGenerator /\ Done /\ RemoteAttempted /\ ~RemoteArtifact) =>
        /\ result.kind = "returned"
        /\ result.origin = "LocalFallback"
        /\ Len(synthCalls) = 1
        /\ synthCalls[1].seed = SentSeed
        /\ synthCalls[1].style = req.style
        /\ synthCalls[1].quality = QualityGet(req.quality)

C3_ServiceNeverRaises ==
    entry = "service" => (result.kind # "raised" /\ (Done => result.kind = "returned"))

C3_Witness ==
    /\ entry = "service" /\ Done /\ result.kind = "returned"
    /\ net.outputs = 1 /\ "error: outputs" \in logged

\* C4: ImageGenerator.generate_image returns an artifact path for every
\* request and every remote outcome.
C4_GenerateImageReturnsArtifact ==
    (InImageGenerator /\ Done) => (result.kind = "returned" /\ result.value # "None")

\* C5: when every status poll of a created job answers RUNNING, the loop
\* stops polling after exactly 30 polls (ImageGenerator) or 60 polls
\* (service), and stops then as timed out.
C5_ExactPollBudget ==
    (InPollLoop /\ seen.created /\ seen.allRunning) =>
        LET budget == IF entry = "service" THEN SVMaxRetries ELSE RHMaxRetries IN
        IF Done THEN net.status = budget /\ jobState = "TimedOut"
        ELSE net.status < budget

C5_Witness == entry = "service" /\ Done /\ seen.created /\ seen.allRunning

\* C6: after the first status that is not RUNNING, SUCCESS or FAILED the
\* remote path has ended: the call is over, the job is Unknown, no outputs
\* request or download was made and no request is ever made again.
C6_UnknownStatusAborts ==
    /\ [](seen.unknown => (Done /\ jobState = "Unknown" /\ net.outputs = 0 /\ net.download = 0))
    /\ [][seen.unknown => net' = net]_vars

C6_Witness == InPollLoop /\ seen.unknown /\ net.status = 2

\* C7: per job at most one outputs request, made only after SUCCESS and
\* made once SUCCESS was seen; at most one download, of entry 0 of the
\* list; no second try of either after a failure.
C7_OneOutputsOneDownload ==
    /\ net.outputs <= 1
    /\ net.download <= net.outputs
    /\ (net.outputs = 1 => seen.success)
    /\ (seen.success => (net.outputs = 1 \/ pc \in {"rh_outputs", "sv_outputs"}))
    /\ (net.download = 1 => task.url = "url-1")

C7_Witness ==
    /\ entry = "generate_image_runninghub" /\ Done
    /\ net.outputs = 1 /\ net.download = 1 /\ ~RemoteArtifact

\* C8: the create request is issued at most once per call.
C8_CreateAtMostOnce == net.create <= 1

C8_Witness == InPollLoop /\ Done /\ net.create = 1 /\ seen.failed

\* C9: in the service, a request with an empty or blank prompt, an
\* image-to-image request without a reference image, or an empty or
\* non-numeric workflow id makes no request, runs no synthesis and creates
\* no output directory; it ends with the error logged.
InvalidRequest(r) ==
    \/ r.prompt \in {"", "   "}
    \/ r.workflow_id \in {"", "abc"}
    \/ (r.workflow_type = "image_to_image" /\ r.reference_image_path.path = "None")

C9_ValidationBeforeAnyRequest ==
    (entry = "service" /\ InvalidRequest(req)) =>
        /\ Requests(net) = 0
        /\ synthCalls = <<>>
        /\ writes = <<>>
        /\ "outputs" \notin dirs
        /\ Done
        /\ result = Returned("None", "None")
        /\ "error: generation failed" \in logged

C9_Witness ==
    /\ entry = "service" /\ Done /\ API_KEY
    /\ req.prompt = "   " /\ req.workflow_id = "123" /\ req.workflow_type = "text_to_image"

\* C10: with use_mock set or without the generation credential,
\* generate_from_text and generate_image_runninghub issue no request.
C10_MockModeNoNetwork ==
    (/\ InImageGenerator
     /\ \/ req.use_mock
        \/ (entry = "generate_image_runninghub" /\ ~runninghub_api_key)
        \/ (entry = "generate_from_text" /\ ~stability_api_key))
    => Requests(net) = 0

\* the names <origin-prefix>_<timestamp>_<seed>.<ext> that carry seed sd
ArtifactNames(sd) ==
    {MockPath(ts, sd) : ts \in Timestamps} \cup {GenPath(ts, sd) : ts \in Timestamps}
    \cup {RHPath(ts, sd, ft) : ts \in Timestamps, ft \in {"png", "jpg"}}
    \cup {"outputs/generated_" \o ToString(ts) \o "_" \o SeedText(sd) \o ".png" : ts \in Timestamps}

\* C11: a call that wrote an artifact has one seed, the explicit one or a
\* generated one; every file it wrote carries that seed in its name, the
\* synthesizer consumed that seed and the remote request carried it.
C11_SeedInEveryArtifact ==
    (Done /\ writes # <<>>) =>
        /\ seed \in Seeds
        /\ (req.seed # NoSeed => seed = req.seed)
        /\ \A i \in 1..Len(writes) : writes[i] \in ArtifactNames(seed)
        /\ \A i \in 1..Len(synthCalls) : synthCalls[i].seed = seed
        /\ (payload.kind \in {"stability", "create"} => SentSeed = seed)

\* a call of the Local Synthesizer that has painted its image
Painted(c) == calls[c].kind = "mock" /\ calls[c].pc \in {"save", "done"}
SameSynthInput(c, d) ==
    /\ calls[c].prompt = calls[d].prompt
    /\ calls[c].style = calls[d].style
    /\ calls[c].quality = calls[d].quality
    /\ calls[c].seed = calls[d].seed

\* C12: two runs of the Local Synthesizer, one after the other, with the
\* same prompt, style, quality and integer seed paint the same image with
\* the same palette, whatever state the generators were left in before.
C12_SynthesizerDeterministic ==
    \A c, d \in Callers :
        (Painted(c) /\ Painted(d) /\ SameSynthInput(c, d) /\ calls[c].seed # NoSeed) =>
            (calls[c].img = calls[d].img /\ calls[c].colors = calls[d].colors)

C12_Witness ==
    /\ calls[1].pc = "done" /\ calls[2].pc = "done"
    /\ Painted(1) /\ Painted(2) /\ SameSynthInput(1, 2)
    /\ calls[1].seed = 1 /\ calls[1].style = "None" /\ Len(calls[1].img) = 6

\* C13: a Local Synthesizer call that runs while another call runs paints
\* the image it paints alone with its seed.
C13_ConcurrentSameAsAlone ==
    \A c \in Callers :
        (Painted(c) /\ calls[c].seed # NoSeed) =>
            calls[c].img = ImageAlone(calls[c].prompt, calls[c].style, calls[c].quality, calls[c].seed)

\* C14: two calls with different seeds that have saved their artifacts
\* saved them under different paths, so both files are there.
C14_DistinctSeedsDistinctPaths ==
    \A c, d \in Callers :
        (c # d /\ calls[c].pc = "done" /\ calls[d].pc = "done" /\ calls[c].seed # calls[d].seed) =>
            /\ calls[c].path # calls[d].path
            /\ [path |-> calls[c].path, by |-> c] \in files

\* C15: a call that returned an artifact wrote exactly one file, the one it
\* returned: a downloaded artifact without any synthesizer run, a
\* synthesized one without any remote file.
C15_ExactlyOneArtifact ==
    ((InImageGenerator \/ entry = "service") /\ Done
       /\ result.kind = "returned" /\ result.value # "None") =>
        /\ writes = <<result.value>>
        /\ (result.origin = "Remote" => synthCalls = <<>>)
        /\ (result.origin = "LocalFallback" =>
                (Len(synthCalls) = 1 /\ \E ts \in Timestamps : writes[1] = MockPath(ts, seed)))

C15_Witness ==
    /\ entry = "generate_image_runninghub" /\ Done
    /\ net.download = 1 /\ result.origin = "LocalFallback" /\ Len(writes) = 1

\* C16: in both poll loops, a status poll that ended in a timeout or a
\* connection error while attempts remain is followed by the next poll.
C16_TransientPollSwallowed ==
    (InPollLoop /\ seen.lastTransient
       /\ net.status < (IF entry = "service" THEN SVMaxRetries ELSE RHMaxRetries)) =>
        (~Done /\ pc \in {"rh_status", "sv_status"})

\* C17: once upload, create, status or outputs answered with a code other
\* than 0, whatever its HTTP status and data, the remote path is over and
\* the call returns no Remote artifact.
C17_NonzeroCodeFails ==
    seen.nonzero => (Done /\ ~RemoteArtifact /\ net.download = 0)

C17_Witness ==
    /\ entry = "generate_image_runninghub" /\ seen.nonzeroOk
    /\ net.status = 2 /\ net.outputs = 0

\* C18: after SUCCESS, an outputs answer whose list is missing or empty
\* ends the remote path: no download, no Remote result, and no further
\* request of any kind.
C18_EmptyOutputsFails ==
    /\ [](seen.outputsEmpty => (Done /\ seen.success /\ net.download = 0 /\ ~RemoteArtifact))
    /\ [][seen.outputsEmpty => net' = net]_vars

C18_Witness == InPollLoop /\ seen.outputsEmpty /\ net.status = 2 /\ net.outputs = 1

\* C19: in the service's image-to-image mode, a reference file with an
\* unsupported extension or larger than 10 MiB ends the call before any
\* request; a .png of exactly 10 MiB is uploaded.
ValidImageToImage ==
    /\ entry = "service" /\ API_KEY /\ ~InvalidRequest(req)
    /\ req.workflow_type = "image_to_image"
    /\ req.reference_image_path.exists
    /\ \E i \in 1..Len(req.workflow_config) : req.workflow_config[i].fieldName = "image"

C19_UploadRejectsBeforeRequest ==
    ValidImageToImage =>
        LET f == req.reference_image_path IN
        /\ (f.ext = ".gif" \/ f.size > 10 * 1024 * 1024) =>
                (Requests(net) = 0 /\ Done /\ result = Returned("None", "None"))
        /\ (f.ext = ".PNG" /\ f.size = 10 * 1024 * 1024) =>
                (pc = "sv_upload" \/ net.upload = 1)

C19_Witness ==
    ValidImageToImage /\ Done /\ req.reference_image_path.size = 10 * 1024 * 1024 + 1

\* C20: in the service, a request whose workflow config has no node for
\* "seed" (for "text") is submitted all the same, with node id "3" ("6") in
\* nodeInfoList, and the warning is logged before the create request.
NoNodeFor(f) == \A i \in 1..Len(req.workflow_config) : req.workflow_config[i].fieldName # f

C20_DefaultNodeIds ==
    (entry = "service" /\ API_KEY /\ ~InvalidRequest(req) /\ req.workflow_id = "123"
       /\ req.workflow_type = "text_to_image") =>
        LET l == payload.nodeInfoList IN
        /\ payload.kind = "create"
        /\ (pc = "sv_create" \/ net.create = 1)
        /\ NoNodeFor("seed") =>
                (l[Len(l)] = Node("3", "seed", seed) /\ "warning: no seed node, using 3" \in logged)
        /\ NoNodeFor("text") =>
                (l[Len(l) - 1] = Node("6", "text", req.prompt) /\ "warning: no text node, using 6" \in logged)

C20_Witness ==
    /\ entry = "service" /\ net.create = 1 /\ jobState = "Created"
    /\ req.workflow_config = <<ImageNode, TextNode>>

\* an image-to-image request of the service that passed validation, with a
\* reference file that upload_image would accept, and no node for "image"
ImageToImageWithoutImageNode ==
    /\ entry = "service" /\ API_KEY /\ ~InvalidRequest(req)
    /\ req.workflow_type = "image_to_image"
    /\ req.reference_image_path = GoodRef
    /\ NoNodeFor("image")

\* C21 as stated: without a node for the image field the service logs a
\* warning, takes a default node id, and the upload takes place.
C21_ImageNodeDefault ==
    ImageToImageWithoutImageNode =>
        /\ (pc = "sv_upload" \/ net.upload = 1)
        /\ \E w \in logged : w \notin {"error: reference image", "error: generation failed"}

\* C21 amended: without a node for the image field the service fails the
\* call: the error is logged, None is returned, and neither the upload nor
\* any other request is made.
C21_ImageNodeRequired ==
    ImageToImageWithoutImageNode =>
        /\ Done
        /\ result = Returned("None", "None")
        /\ {"error: reference image", "error: generation failed"} \subseteq logged
        /\ Requests(net) = 0

C21_Witness ==
    ImageToImageWithoutImageNode /\ Done /\ req.workflow_config = <<TextNode, SeedNode>>

\* C22: in generate_from_text, a translation that failed (no credential,
\* network error, a status other than 200, a body without the text) raises
\* nothing: the prompt sent on is the passthrough that wraps the original
\* text, the call goes on to the generation step and ends with an artifact.
TranslationFailed == entry = "generate_from_text" /\ (seen.translateFailed \/ ~dashscope_api_key)

C22_TranslationNeverGating ==
    TranslationFailed =>
        /\ result.kind # "raised"
        /\ pc \in {"ft_stability", "done"}
        /\ (Done => (result.kind = "returned" /\ result.value # "None" /\ writes = <<result.value>>))
        /\ (payload.kind = "stability" =>
                payload.text_prompts[1].text
                    = "[original: " \o (IF req.style \in DOMAIN IMAGE_STYLES
                                         THEN prompt \o ", " \o IMAGE_STYLES[req.style].name
                                         ELSE prompt) \o "]")

C22_Witness ==
    /\ entry = "generate_from_text" /\ seen.translateFailed /\ net.translate = 1
    /\ Done /\ result.origin = "Remote"

\* C23: enhance_prompt returns, for every base, style and extra_details,
\* the base (the placeholder phrase for an empty base), then the style's
\* description when the style is registered, then extra_details when not
\* empty, joined by the separator.
C23_EnhancePromptTotal ==
    entry = "enhance_prompt" =>
        LET base == IF req.prompt \in {"", "None"} THEN "blank image" ELSE req.prompt
            styled == IF req.style \in DOMAIN IMAGE_STYLES
                      THEN base \o ", " \o IMAGE_STYLES[req.style].name ELSE base
            full == IF req.extra_details \in {"", "None"} THEN styled
                    ELSE styled \o ", " \o req.extra_details
        IN  result = Returned(full, "text")

\* C24: in generate_from_text, a style key outside the registry gives the
\* neutral default palette and no style preset in the request; a key of
\* the registry gives that style's own palette and its preset.
C24_StyleLookupsAgree ==
    entry = "generate_from_text" =>
        LET known == req.style \in {"watercolor", "ink"} IN
        /\ (payload.kind = "stability" /\ net.stability = 0) =>
                IF known THEN payload.style_preset = IMAGE_STYLES[req.style].preset
                ELSE payload.style_preset = "None"
        /\ \A i \in 1..Len(synthCalls) :
                IF known
                THEN /\ req.style \in DOMAIN style_colors
                     /\ SubSeq(synthCalls[i].colors, 1, 3) = style_colors[req.style]
                ELSE SubSeq(synthCalls[i].colors, 1, 3) = DefaultColors

\* C25: the remote job goes None -> Created -> Running -> Succeeded,
\* Failed, TimedOut or Unknown. A status poll is made only after a create
\* answer with code 0, the outputs request only after a SUCCESS status,
\* the download only after a non-empty outputs list, and no status poll
\* is made once the job is in a terminal state.
TerminalStates == {"Succeeded", "Failed", "TimedOut", "Unknown"}
JobTransitions ==
    {<<"None", "Created">>}
    \cup {<<a, b>> : a \in {"Created", "Running"}, b \in {"Running"} \cup TerminalStates}

C25_JobStateMachine ==
    /\ [](net.status > 0 => (seen.created /\ net.create = 1 /\ task.taskId # "None"))
    /\ [](net.outputs > 0 => (seen.success /\ jobState = "Succeeded"))
    /\ [](net.download > 0 => (net.outputs = 1 /\ ~seen.outputsEmpty /\ task.url # "None"))
    /\ [][(jobState \in TerminalStates) => (net.status' = net.status)]_vars
    /\ [][jobState' # jobState => <<jobState, jobState'>> \in JobTransitions]_vars

C25_Witness ==
    /\ entry = "service" /\ Done /\ jobState = "Succeeded"
    /\ net.status = 3 /\ net.outputs = 1 /\ net.download = 1 /\ RemoteArtifact

\* C26: whatever the status answers are, timeouts and connection errors
\* included, a job gets at most 30 (ImageGenerator) or 60 (service) status
\* requests, the loop is left when the budget is used up, and the call ends.
PollBudget == IF entry = "service" THEN SVMaxRetries ELSE RHMaxRetries

C26_PollBudgetBoundsExecution ==
    /\ [](net.status <= PollBudget)
    /\ [](net.status = PollBudget => pc \notin {"rh_status", "sv_status"})
    /\ (InPollLoop ~> Done)

C26_Witness ==
    /\ entry = "service" /\ Done /\ seen.transient
    /\ net.status = SVMaxRetries /\ jobState = "TimedOut"

\* C27: in the service's image-to-image mode the create request is built
\* and issued only after the upload was accepted, its first node is the
\* image node with the file name the upload returned, and after an upload
\* that failed the call ends without a create request.
C27_CreateAfterUpload ==
    (entry = "service" /\ req.workflow_type = "image_to_image" /\ ~InvalidRequest(req)) =>
        /\ (pc = "sv_create" \/ net.create > 0) =>
                /\ net.upload = 1
                /\ seen.uploaded
                /\ payload.nodeInfoList[1] = Node(ImageNode.nodeId, "image", "api/ref.png")
        /\ (net.upload = 1 /\ ~seen.uploaded) =>
                (Done /\ net.create = 0 /\ result = Returned("None", "None"))

C27_Witness ==
    /\ entry = "service" /\ req.workflow_type = "image_to_image"
    /\ net.upload = 1 /\ net.create = 1 /\ seen.uploaded /\ seen.created

C29_AlgorithmByStyleAlone ==
    \A c \in Callers :
        (calls[c].kind = "mock" /\ calls[c].pc \in {"draw", "save", "done"}) =>
            /\ (calls[c].style \in {"pixel", "anime", "minimalist"}) => (calls[c].algo = "blocks")
            /\ (calls[c].style \in {"watercolor", "oil", "impressionist"}) => (calls[c].algo = "discs")
            /\ (calls[c].style \notin {"pixel", "anime", "minimalist", "watercolor", "oil", "impressionist"})
                    => (calls[c].algo = "gradients")
            /\ Painted(c) =>
                    Len(calls[c].img) = MaxShapes * (CASE calls[c].algo = "blocks" -> 1
                                                       [] calls[c].algo = "discs" -> 4
                                                       [] OTHER -> 6)
            /\ \A d \in Callers :
                    (calls[d].kind = "mock" /\ calls[d].pc \in {"draw", "save", "done"}
                        /\ calls[d].style = calls[c].style) => (calls[d].algo = calls[c].algo)

C29_Witness ==
    /\ Painted(1) /\ Painted(2)
    /\ calls[1].style = "watercolor" /\ calls[2].style = "watercolor"
    /\ calls[1].prompt # calls[2].prompt
    /\ calls[1].colors # calls[2].colors
    /\ calls[1].algo = "discs" /\ calls[2].algo = "discs"

C29_WitnessDefault ==
    /\ Painted(1) /\ calls[1].style = "unknown" /\ calls[1].algo = "gradients"

\* C30: an operation of WorkflowConfig that returns False leaves the map in
\* memory as it was, and after every operation the map get_all_workflows
\* returns is the last configuration saved.
C30_FailedOperationLeavesMap ==
    /\ [][(ret' = "False") => (workflows' = workflows)]_vars
    /\ [](get_all_workflows = saved)

====
